---- MODULE Spec2Model ----
(***************************************************************************)
(* Model of the comparison engine of excel_comparison.py:                  *)
(* ExcelComparisonApp.compare_files / calculate_result.                    *)
(*                                                                         *)
(* A table (pandas DataFrame after lines 752-769) is a record              *)
(*   [columns |-> sequence of header labels, rows |-> sequence of rows]    *)
(* where every row has as many cells as there are labels.  The header row  *)
(* is read as data (header=None, line 752) and its cells are texts, so     *)
(* every column is of dtype object: cells keep their Python type and an    *)
(* empty cell is the one float nan object.  Labels of one table are        *)
(* pairwise distinct.                                                      *)
(***************************************************************************)
EXTENDS Integers, Sequences, FiniteSets, TLC

VARIABLES df1, df2, settings, gck_check, result, error, prev_result, prev_error, calls,
          entries, custom_entries, message, settings_file

vars == <<df1, df2, settings, gck_check, result, error, prev_result, prev_error, calls,
          entries, custom_entries, message, settings_file>>
inputs == <<df1, df2, settings, gck_check>>
(* the settings window (its entry texts, the last message box) and the      *)
(* settings file                                                            *)
window == <<entries, custom_entries, message, settings_file>>

-----------------------------------------------------------------------------
(* Cell values: a number, a text or an empty cell (nan).                    *)

Num(n) == [t |-> "num", n |-> n, s |-> ""]
Text(s) == [t |-> "text", n |-> 0, s |-> s]
Empty == [t |-> "nan", n |-> 0, s |-> ""]

(* Python's == on two cells: nan equals nothing (not even nan), a number    *)
(* never equals a text, numbers compare by value, texts by characters.      *)
PyEq(a, b) ==
    /\ a.t # "nan"
    /\ b.t # "nan"
    /\ a.t = b.t
    /\ a.n = b.n
    /\ a.s = b.s

(* != after both cells are turned into text, so that a number equals the    *)
(* text of its digits                                                       *)
PyNeCoerced(a, b) ==
    LET Str(v) == IF v.t = "num"
                  THEN (CASE v.n = 5 -> "5" [] v.n = 7 -> "7" [] v.n = 10 -> "10"
                          [] v.n = 12 -> "12" [] OTHER -> "?")
                  ELSE v.s
    IN a.t = "nan" \/ b.t = "nan" \/ Str(a) # Str(b)

(* Python's != on two cells (line 849).                                     *)
PyNe(a, b) == ~PyEq(a, b)

-----------------------------------------------------------------------------
(* Bounds of the model.                                                     *)

MaxRows == 2
MaxIdx == 3
MaxCustom == 2
MaxCalls == 2
(* rows per table where the layouts and the settings vary                   *)
LayoutRows == 1

Codes == {Text("001"), Text("002")}
Names == {Text("Widget"), Text("Gadget")}

SeqsUpTo(S, n) == UNION {[1..k -> S] : k \in 0..n}

(* the rows that fit header h: column "Code" holds values of codes, column  *)
(* "Name" values of names, any other column values of qtys                  *)
RowsOf(h, codes, names, qtys) ==
    {r \in [1..Len(h) -> codes \cup names \cup qtys] :
        \A i \in 1..Len(h) :
            r[i] \in (CASE h[i] = "Code" -> codes [] h[i] = "Name" -> names [] OTHER -> qtys)}

TablesOf(h, codes, names, qtys, n) ==
    {[columns |-> h, rows |-> rs] : rs \in SeqsUpTo(RowsOf(h, codes, names, qtys), n)}

Idx == 0..MaxIdx
FieldNames == {"Region", "Incoming"}
CustomComparisons == SeqsUpTo([name : FieldNames, index : Idx], MaxCustom)

-----------------------------------------------------------------------------
(* pandas / Python primitives used by calculate_result.  A step that can    *)
(* raise returns [error |-> <<e>>, val |-> ...]; error = <<>> means no      *)
(* exception.                                                               *)

Ok(v) == [error |-> <<>>, val |-> v]
Raise(e) == [error |-> <<e>>, val |-> <<>>]

IndexError(i, n) == [type |-> "IndexError", index |-> i, size |-> n, label |-> ""]
KeyError(l) == [type |-> "KeyError", index |-> 0, size |-> 0, label |-> l]
(* "single positional indexer is out-of-bounds": .iloc[0] of an empty frame *)
IlocError == [type |-> "IndexError", index |-> 0, size |-> 0, label |-> ""]

(* df.columns[idx]: Python indexing, negative positions count from the end, *)
(* a position outside the header raises IndexError                          *)
HasColumn(df, idx) == idx < Len(df.columns) /\ idx >= -Len(df.columns)
ColumnAt(df, idx) ==
    IF idx >= 0 THEN df.columns[idx + 1] ELSE df.columns[Len(df.columns) + idx + 1]

Column(df, idx) ==
    IF HasColumn(df, idx) THEN Ok(ColumnAt(df, idx))
    ELSE Raise(IndexError(idx, Len(df.columns)))

(* df[label]: the column carrying that label                                *)
HasLabel(df, label) == \E i \in 1..Len(df.columns) : df.columns[i] = label
Pos(df, label) == CHOOSE i \in 1..Len(df.columns) : df.columns[i] = label

(* set(df[label].values)                                                    *)
CodeSet(df, label) == {df.rows[i][Pos(df, label)] : i \in 1..Len(df.rows)}

(* the rows whose cell equals code, the last of them first                   *)
RowsWithCodeLastFirst(df, label, code) ==
    LET Match(r) == PyEq(r[Pos(df, label)], code)
        rows == SelectSeq(df.rows, Match)
    IN [i \in 1..Len(rows) |-> rows[Len(rows) + 1 - i]]

(* df[df[label] == code]: the rows whose cell equals code, in table order   *)
RowsWithCode(df, label, code) ==
    LET Match(r) == PyEq(r[Pos(df, label)], code)
    IN SelectSeq(df.rows, Match)

(* iteration of a Python set: the elements of S in the order ord lists them *)
Iterate(S, ord) ==
    LET In(x) == x \in S
    IN SelectSeq(ord, In)

Orders(S) == {o \in [1..Cardinality(S) -> S] : \A i, j \in 1..Cardinality(S) : o[i] = o[j] => i = j}

-----------------------------------------------------------------------------
(* calculate_result, lines 777-859.                                         *)

(* the subtraction of the other file's codes left out                       *)
missing_codes_unsubtracted(file1_codes, file2_codes) == file1_codes
extra_codes_unsubtracted(file1_codes, file2_codes) == file2_codes

(* lines 798 and 804: set difference; line 816: intersection                *)
missing_codes(file1_codes, file2_codes) == file1_codes \ file2_codes
extra_codes(file1_codes, file2_codes) == file2_codes \ file1_codes
common_codes(file1_codes, file2_codes) == file1_codes \cap file2_codes

(* lines 799-801 and 805-807: one (code, description) pair per code, the    *)
(* description read from the first row of df carrying that code             *)
RECURSIVE Describe(_, _, _, _, _)
Describe(df, code_column, description_column, codes, acc) ==
    IF codes = <<>> THEN Ok(acc)
    ELSE IF ~HasLabel(df, description_column) THEN Raise(KeyError(description_column))
    ELSE LET rows == RowsWithCode(df, code_column, Head(codes)) IN
         IF rows = <<>> THEN Raise(IlocError)
         ELSE Describe(df, code_column, description_column, Tail(codes),
                       Append(acc, <<Head(codes), rows[1][Pos(df, description_column)]>>))

(* lines 810-812, 815                                                       *)
has_custom(s) == Len(s.custom_comparisons) > 0
should_compare(gck, s) == gck \/ has_custom(s)

(* lines 821-831: the three fixed columns, resolved on df1                  *)
GckColumns(df, s) ==
    LET incoming == Column(df, s.incoming_column_index)
        outgoing == Column(df, s.outgoing_column_index)
        remaining == Column(df, s.remaining_column_index)
    IN IF incoming.error # <<>> THEN incoming
       ELSE IF outgoing.error # <<>> THEN outgoing
       ELSE IF remaining.error # <<>> THEN remaining
       ELSE Ok(<<[name |-> "Incoming", col |-> incoming.val],
                 [name |-> "Outgoing", col |-> outgoing.val],
                 [name |-> "Remaining", col |-> remaining.val]>>)

(* lines 834-839: custom comparisons, an index df1 does not have is skipped *)
RECURSIVE CustomColumns(_, _)
CustomColumns(df, comps) ==
    IF comps = <<>> THEN <<>>
    ELSE LET comp == Head(comps)
             col == Column(df, comp.index)
         IN IF col.error = <<>>
            THEN <<[name |-> comp.name, col |-> col.val]>> \o CustomColumns(df, Tail(comps))
            ELSE CustomColumns(df, Tail(comps))

(* the custom comparisons put in front of the fixed columns                 *)
columns_to_compare_custom_first(df, s, gck) ==
    IF gck
    THEN LET g == GckColumns(df, s) IN
         IF g.error # <<>> THEN g
         ELSE Ok(CustomColumns(df, s.custom_comparisons) \o g.val)
    ELSE Ok(CustomColumns(df, s.custom_comparisons))

(* lines 819-839                                                            *)
columns_to_compare(df, s, gck) ==
    IF gck
    THEN LET g == GckColumns(df, s) IN
         IF g.error # <<>> THEN g
         ELSE Ok(g.val \o CustomColumns(df, s.custom_comparisons))
    ELSE Ok(CustomColumns(df, s.custom_comparisons))

(* diff_fields[field_name] = (a, b) on a dict that keeps insertion order: a *)
(* name already present keeps its place and takes the new value             *)
DictSet(d, name, a, b) ==
    IF \E i \in 1..Len(d) : d[i].name = name
    THEN [i \in 1..Len(d) |-> IF d[i].name = name THEN [name |-> name, a |-> a, b |-> b] ELSE d[i]]
    ELSE Append(d, [name |-> name, a |-> a, b |-> b])

(* lines 846-850: the unequal fields of one pair of rows                    *)
RECURSIVE diff_fields(_, _, _, _, _, _)
diff_fields(d1, d2, row1, row2, cols, acc) ==
    IF cols = <<>> THEN Ok(acc)
    ELSE LET c == Head(cols) IN
         IF ~HasLabel(d2, c.col) THEN Raise(KeyError(c.col))
         ELSE LET a == row1[Pos(d1, c.col)]
                  b == row2[Pos(d2, c.col)]
              IN diff_fields(d1, d2, row1, row2, Tail(cols),
                             IF PyNe(a, b) THEN DictSet(acc, c.name, a, b) ELSE acc)

(* lines 842-857: the loop over the common codes                            *)
RECURSIVE Differences(_, _, _, _, _, _, _)
Differences(d1, d2, code_column, description_column, cols, codes, acc) ==
    IF codes = <<>> THEN Ok(acc)
    ELSE LET code == Head(codes)
             rows1 == RowsWithCode(d1, code_column, code)
             rows2 == RowsWithCode(d2, code_column, code)
         IN IF rows1 = <<>> \/ rows2 = <<>> THEN Raise(IlocError)
            ELSE LET f == diff_fields(d1, d2, rows1[1], rows2[1], cols, <<>>) IN
                 IF f.error # <<>> THEN f
                 ELSE Differences(d1, d2, code_column, description_column, cols, Tail(codes),
                          IF f.val # <<>>
                          THEN Append(acc, [code |-> code,
                                            description |-> rows1[1][Pos(d1, description_column)],
                                            fields |-> f.val])
                          ELSE acc)

(* the fixed columns compared whether or not the checkbox is set            *)
FieldComparisonAlways(d1, d2, s, gck, code_column, description_column, ord) ==
    LET cols == columns_to_compare(d1, s, TRUE) IN
    IF cols.error # <<>> THEN cols
    ELSE Differences(d1, d2, code_column, description_column, cols.val,
             Iterate(common_codes(CodeSet(d1, code_column), CodeSet(d2, code_column)), ord),
             <<>>)

(* the loop over the common codes left after its first pass                 *)
FieldComparisonFirstOnly(d1, d2, s, gck, code_column, description_column, ord) ==
    IF ~should_compare(gck, s) THEN Ok(<<>>)
    ELSE LET cols == columns_to_compare(d1, s, gck)
             codes == Iterate(common_codes(CodeSet(d1, code_column), CodeSet(d2, code_column)), ord)
         IN IF cols.error # <<>> THEN cols
            ELSE Differences(d1, d2, code_column, description_column, cols.val,
                     IF codes = <<>> THEN <<>> ELSE <<Head(codes)>>, <<>>)

(* lines 809-857: the differences list                                      *)
FieldComparison(d1, d2, s, gck, code_column, description_column, ord) ==
    IF ~should_compare(gck, s) THEN Ok(<<>>)
    ELSE LET cols == columns_to_compare(d1, s, gck) IN
         IF cols.error # <<>> THEN cols
         ELSE Differences(d1, d2, code_column, description_column, cols.val,
                  Iterate(common_codes(CodeSet(d1, code_column), CodeSet(d2, code_column)), ord),
                  <<>>)

(* the rows of a table counted once per distinct row                        *)
row_count_distinct(df) == Cardinality({df.rows[i] : i \in 1..Len(df.rows)})

(* lines 780-781: len(df), the number of rows of the table                  *)
row_count(df) == Len(df.rows)

(* lines 777-859.  ord is the iteration order of the three code sets.       *)
calculate_result(d1, d2, s, gck, ord) ==
    LET code == Column(d1, s.code_column_index)
        desc == Column(d1, s.name_column_index)
    IN IF code.error # <<>> THEN code
       ELSE IF desc.error # <<>> THEN desc
       ELSE IF ~HasLabel(d2, code.val) THEN Raise(KeyError(code.val))
       ELSE LET code_column == code.val
                description_column == desc.val
                file1_codes == CodeSet(d1, code_column)
                file2_codes == CodeSet(d2, code_column)
                missing == Describe(d1, code_column, description_column,
                               Iterate(missing_codes(file1_codes, file2_codes), ord), <<>>)
                extra == Describe(d2, code_column, description_column,
                               Iterate(extra_codes(file1_codes, file2_codes), ord), <<>>)
                diffs == FieldComparison(d1, d2, s, gck, code_column, description_column, ord)
            IN IF missing.error # <<>> THEN missing
               ELSE IF extra.error # <<>> THEN extra
               ELSE IF diffs.error # <<>> THEN diffs
               ELSE Ok(<<[row_count_1 |-> row_count(d1),
                          row_count_2 |-> row_count(d2),
                          missing_codes |-> missing.val,
                          extra_codes |-> extra.val,
                          differences |-> diffs.val]>>)

(* the values the three code sets can hold: what ord has to order           *)
CodeUniverse(d1, d2, s) ==
    IF HasColumn(d1, s.code_column_index) /\ HasLabel(d2, ColumnAt(d1, s.code_column_index))
    THEN CodeSet(d1, ColumnAt(d1, s.code_column_index))
             \cup CodeSet(d2, ColumnAt(d1, s.code_column_index))
    ELSE {}

-----------------------------------------------------------------------------
(* The state machine.                                                       *)

SettingsOf(code, name, incoming, outgoing, remaining, custom) ==
    [code_column_index |-> code, name_column_index |-> name,
     incoming_column_index |-> incoming, outgoing_column_index |-> outgoing,
     remaining_column_index |-> remaining, custom_comparisons |-> custom]

NoCall ==
    /\ result = <<>>
    /\ error = <<>>
    /\ prev_result = <<>>
    /\ prev_error = <<>>
    /\ calls = 0

(* Two exports of one layout with every content of up to MaxRows rows,      *)
(* under the settings of that layout.                                       *)
ContentsTables ==
    TablesOf(<<"Code", "Name", "Qty">>, Codes, Names, {Num(10), Num(12)}, MaxRows)

InitContents ==
    /\ df1 \in ContentsTables
    /\ df2 \in ContentsTables
    /\ \E custom \in SeqsUpTo({[name |-> "Region", index |-> 2]}, 1) :
           settings = SettingsOf(0, 1, 2, 2, 1, custom)
    /\ gck_check \in BOOLEAN

(* Every layout of the two tables and every setting of the indices, on      *)
(* tables of at most LayoutRows rows whose cells are numbers, texts or      *)
(* empty.                                                                   *)
LayoutTables(headers) ==
    UNION {TablesOf(h, Codes, {Text("Widget")}, {Num(10), Text("10"), Empty}, LayoutRows) :
              h \in headers}

InitLayout ==
    /\ df1 \in LayoutTables({<<"Code", "Name", "Qty">>, <<"Code", "Name">>})
    /\ df2 \in LayoutTables({<<"Code", "Name", "Qty">>, <<"Code", "Qty", "Name">>,
                             <<"Code", "Name">>, <<"Code", "Qty">>})
    /\ \/ /\ \E code \in Idx, name \in Idx : settings = SettingsOf(code, name, 2, 2, 1, <<>>)
          /\ gck_check \in BOOLEAN
       \/ /\ \E incoming \in Idx, outgoing \in Idx, remaining \in Idx :
                 settings = SettingsOf(0, 1, incoming, outgoing, remaining, <<>>)
          /\ gck_check = TRUE
       \/ /\ \E custom \in CustomComparisons : settings = SettingsOf(0, 1, 2, 2, 1, custom)
          /\ gck_check \in BOOLEAN

(* Two one-record tables of one layout whose cells are numbers and texts,   *)
(* among them a number and the text of its digits, and texts that differ in *)
(* case or in a trailing blank only.                                        *)
ValueTables ==
    TablesOf(<<"Code", "Name", "Qty">>, {Text("001")},
             {Text("Widget"), Text("widget"), Text("Widget ")},
             {Num(5), Num(7), Text("5")}, 1)

InitValues ==
    /\ df1 \in ValueTables
    /\ df2 \in ValueTables
    /\ \E custom \in SeqsUpTo({[name |-> "Region", index |-> 1]}, 1) :
           settings = SettingsOf(0, 1, 2, 2, 1, custom)
    /\ gck_check \in BOOLEAN

(* no settings window is open; the settings file holds the settings in use  *)
(* (load_settings, lines 29-44)                                             *)
NoWindow ==
    /\ entries = <<>>
    /\ custom_entries = <<>>
    /\ message = ""
    /\ settings_file = <<settings>>

Init == (InitContents \/ InitLayout \/ InitValues) /\ NoCall /\ NoWindow

(* compare_files with the strip of the last row (line 756) done in place on *)
(* the first table instead of on a copy                                     *)
compare_files_inplace ==
    /\ calls < MaxCalls
    /\ \E ord \in Orders(CodeUniverse(df1, df2, settings)) :
         LET r == calculate_result(df1, df2, settings, gck_check, ord) IN
         /\ result' = r.val
         /\ error' = r.error
    /\ prev_result' = result
    /\ prev_error' = error
    /\ calls' = calls + 1
    /\ df1' = [df1 EXCEPT !.rows = SubSeq(df1.rows, 1, Len(df1.rows) - 1)]
    /\ UNCHANGED <<df2, settings, gck_check>>
    /\ UNCHANGED window

(* compare_files, lines 745-775, with both files selected: the tables are   *)
(* read, calculate_result runs, and either its result goes to the result    *)
(* window or the exception is caught and shown (line 774).                  *)
compare_files ==
    /\ calls < MaxCalls
    /\ \E ord \in Orders(CodeUniverse(df1, df2, settings)) :
         LET r == calculate_result(df1, df2, settings, gck_check, ord) IN
         /\ result' = r.val
         /\ error' = r.error
    /\ prev_result' = result
    /\ prev_error' = error
    /\ calls' = calls + 1
    /\ UNCHANGED inputs
    /\ UNCHANGED window

Next == compare_files

Spec == Init /\ [][Next]_vars

-----------------------------------------------------------------------------
(* SettingsWindow.save_settings, lines 378-455, and the SettingsManager it  *)
(* writes to.  The text of an entry is a sequence of characters.            *)

MaxCustomRows == 2

(* the keys of self.entries in the order the window creates them (225-248)  *)
Keys ==
    <<"code_column_index", "name_column_index", "incoming_column_index",
      "outgoing_column_index", "remaining_column_index">>
KeySet == {Keys[i] : i \in 1..Len(Keys)}

AsciiDigits == <<"0", "1", "2", "3", "4", "5", "6", "7", "8", "9">>
(* a character that str.isdigit accepts and int rejects; "^2" stands for    *)
(* the one character superscript two                                        *)
SuperscriptTwo == "^2"

ValueError == [type |-> "ValueError", index |-> 0, size |-> 0, label |-> ""]

(* str.strip(): blanks at both ends removed                                 *)
RECURSIVE lstrip(_)
lstrip(cs) == IF cs # <<>> /\ Head(cs) = " " THEN lstrip(Tail(cs)) ELSE cs

RECURSIVE rstrip(_)
rstrip(cs) ==
    IF cs # <<>> /\ cs[Len(cs)] = " " THEN rstrip(SubSeq(cs, 1, Len(cs) - 1)) ELSE cs

strip(cs) == rstrip(lstrip(cs))

(* str.isdigit(): not empty and every character a digit                     *)
isdigit(cs) ==
    /\ cs # <<>>
    /\ \A i \in 1..Len(cs) :
           cs[i] = SuperscriptTwo \/ \E d \in 1..10 : AsciiDigits[d] = cs[i]

(* int(value) on a text isdigit accepts: its decimal value, ValueError when *)
(* a character is no decimal digit                                          *)
RECURSIVE int_of(_, _)
int_of(cs, acc) ==
    IF cs = <<>> THEN Ok(acc)
    ELSE IF \E d \in 1..10 : AsciiDigits[d] = Head(cs)
         THEN int_of(Tail(cs), 10 * acc + (CHOOSE d \in 0..9 : AsciiDigits[d + 1] = Head(cs)))
         ELSE Raise(ValueError)

int(cs) == IF cs = <<>> THEN Raise(ValueError) ELSE int_of(cs, 0)

(* a validation step: message # "" is the message box shown before the      *)
(* return, error the exception caught at line 450                           *)
Valid(v) == [message |-> "", error |-> <<>>, val |-> v]
Rejected(m) == [message |-> m, error |-> <<>>, val |-> <<>>]
Caught(e) == [message |-> "Error", error |-> e, val |-> <<>>]

(* lines 382-392: the five index entries, in order                          *)
RECURSIVE new_settings(_, _, _)
new_settings(es, keys, acc) ==
    IF keys = <<>> THEN Valid(acc)
    ELSE LET value == strip(es[Head(keys)]) IN
         IF ~isdigit(value) THEN Rejected("Invalid Value")
         ELSE LET n == int(value) IN
              IF n.error # <<>> THEN Caught(n.error)
              ELSE new_settings(es, Tail(keys),
                                Append(acc, [key |-> Head(keys), value |-> n.val]))

(* lines 395-418: the custom comparison rows; a row with neither name nor   *)
(* index is passed over                                                     *)
RECURSIVE custom_comparisons(_, _)
custom_comparisons(rows, acc) ==
    IF rows = <<>> THEN Valid(acc)
    ELSE LET name == strip(Head(rows).name)
             index == strip(Head(rows).index)
         IN IF name # <<>> /\ index # <<>>
            THEN IF ~isdigit(index) THEN Rejected("Invalid Value")
                 ELSE LET n == int(index) IN
                      IF n.error # <<>> THEN Caught(n.error)
                      ELSE custom_comparisons(Tail(rows),
                                              Append(acc, [name |-> name, index |-> n.val]))
            ELSE IF name # <<>> \/ index # <<>> THEN Rejected("Missing Information")
            ELSE custom_comparisons(Tail(rows), acc)

(* SettingsManager.set, lines 59-61                                         *)
set(s, key, value) == [k \in DOMAIN s \cup {key} |-> IF k = key THEN value ELSE s[k]]

(* lines 430-431: set for every validated index                             *)
RECURSIVE set_all(_, _)
set_all(s, pairs) ==
    IF pairs = <<>> THEN s
    ELSE set_all(set(s, Head(pairs).key, Head(pairs).value), Tail(pairs))

(* the validated indices set before the custom rows are looked at           *)
SaveOutcomeEager(es, rows, s) ==
    LET idx == new_settings(es, Keys, <<>>) IN
    IF idx.message # "" THEN [message |-> idx.message, settings |-> s, save |-> FALSE]
    ELSE LET cus == custom_comparisons(rows, <<>>) IN
         IF cus.message # ""
         THEN [message |-> cus.message, settings |-> set_all(s, idx.val), save |-> FALSE]
         ELSE [message |-> "",
               settings |-> set(set_all(s, idx.val), "custom_comparisons", cus.val),
               save |-> TRUE]

(* lines 380-433: what save_settings does to the settings before it writes  *)
(* the file: message is the message box of an early return, save tells      *)
(* whether SettingsManager.save_settings is reached                         *)
SaveOutcome(es, rows, s) ==
    LET idx == new_settings(es, Keys, <<>>) IN
    IF idx.message # "" THEN [message |-> idx.message, settings |-> s, save |-> FALSE]
    ELSE LET cus == custom_comparisons(rows, <<>>) IN
         IF cus.message # "" THEN [message |-> cus.message, settings |-> s, save |-> FALSE]
         ELSE IF \/ \E i \in 1..Len(idx.val) : idx.val[i].value < 0
                 \/ \E i \in 1..Len(cus.val) : cus.val[i].index < 0
              THEN [message |-> "Invalid Value", settings |-> s, save |-> FALSE]
              ELSE [message |-> "",
                    settings |-> set(set_all(s, idx.val), "custom_comparisons", cus.val),
                    save |-> TRUE]

(* SettingsManager.save_settings, lines 46-53: the file after the attempt   *)
(* to write s; open(..., 'w') can fail before it empties the file, and the  *)
(* write after it                                                           *)
FileAfter(file, s, outcome) ==
    CASE outcome = "written" -> <<s>>
      [] outcome = "not opened" -> file
      [] OTHER -> <<>>

(* SettingsWindow.save_settings, lines 378-455, in an open settings window; *)
(* after "Success" the window is closed (line 441)                          *)
SettingsWindow_save_settings ==
    /\ entries # <<>>
    /\ message # "Success"
    /\ LET o == SaveOutcome(entries, custom_entries, settings) IN
       /\ settings' = o.settings
       /\ IF o.save
          THEN \E outcome \in {"written", "not opened", "emptied"} :
                   /\ settings_file' = FileAfter(settings_file, o.settings, outcome)
                   /\ message' = IF outcome = "written" THEN "Success" ELSE "Error"
          ELSE /\ settings_file' = settings_file
               /\ message' = o.message
    /\ UNCHANGED <<df1, df2, gck_check, result, error, prev_result, prev_error, calls>>
    /\ UNCHANGED <<entries, custom_entries>>

(* The settings window open over the default settings (lines 19-26) or over *)
(* settings with one custom comparison, with texts typed into its entries;  *)
(* no file is selected and no comparison has run.                           *)
NoTable == [columns |-> <<>>, rows |-> <<>>]

GoodTexts == {<<"4">>, <<" ", "1", "0", " ">>}
BadTexts == {<<>>, <<" ">>, <<"x">>, <<"-", "1">>, <<"1", ".", "5">>, <<SuperscriptTwo>>}
NameTexts == {<<>>, <<"R">>, <<" ", "R">>}
CustomIndexTexts == {<<>>, <<"3">>, <<"x">>}

InitSettings ==
    /\ df1 = NoTable
    /\ df2 = NoTable
    /\ gck_check = FALSE
    /\ NoCall
    /\ \E custom \in SeqsUpTo({[name |-> <<"R">>, index |-> 2]}, 1) :
           settings = SettingsOf(1, 5, 6, 7, 8, custom)
    /\ settings_file = <<settings>>
    /\ message = ""
    /\ \E bad \in BadTexts : entries \in [KeySet -> GoodTexts \cup {bad}]
    /\ custom_entries \in SeqsUpTo([name : NameTexts, index : CustomIndexTexts], MaxCustomRows)

NextSettings == SettingsWindow_save_settings

SpecSettings == InitSettings /\ [][NextSettings]_vars

-----------------------------------------------------------------------------
(* Properties.  The notions below are those of the specification's text;    *)
(* they read the state, not the operators of calculate_result.              *)

Called == calls > 0
Returned == calls > 0 /\ result # <<>>
Failed == calls > 0 /\ error # <<>>

Range(f) == {f[i] : i \in DOMAIN f}
NoRepeat(f) == \A i, j \in DOMAIN f : f[i] = f[j] => i = j
Count(f, x) == Cardinality({i \in DOMAIN f : f[i] = x})

(* position of the key and of the description in a record of table A, and   *)
(* in a record of table B (the column of B labelled as A's column is)       *)
KeyPosA == settings.code_column_index + 1
DescPosA == settings.name_column_index + 1
LabelPosB(posA) == CHOOSE j \in 1..Len(df2.columns) : df2.columns[j] = df1.columns[posA]
KeyPosB == LabelPosB(KeyPosA)

KeysA == {df1.rows[i][KeyPosA] : i \in 1..Len(df1.rows)}
KeysB == {df2.rows[i][KeyPosB] : i \in 1..Len(df2.rows)}

OnlyInAKeys == [i \in DOMAIN result[1].missing_codes |-> result[1].missing_codes[i][1]]
OnlyInBKeys == [i \in DOMAIN result[1].extra_codes |-> result[1].extra_codes[i][1]]
DifferenceKeys == [i \in DOMAIN result[1].differences |-> result[1].differences[i].code]

(* C1: when compare returns a result, every key of table A occurs at most   *)
(* once in only_in_a and differences taken together: it is in only_in_a, or *)
(* it is the key of a differences entry, or it is in neither, never both.   *)
C1_Partition ==
    Returned =>
        \A k \in KeysA : Count(OnlyInAKeys, k) + Count(DifferenceKeys, k) <= 1

C1_Witness ==
    /\ Returned
    /\ \E k \in KeysA : Count(OnlyInAKeys, k) = 1
    /\ \E k \in KeysA : Count(DifferenceKeys, k) = 1

SameLayout == df1.columns = df2.columns
ComparisonActive == gck_check \/ settings.custom_comparisons # <<>>
ValidPosition(df, i) == i >= 0 /\ i < Len(df.columns)

Triad ==
    <<[name |-> "Incoming", index |-> settings.incoming_column_index],
      [name |-> "Outgoing", index |-> settings.outgoing_column_index],
      [name |-> "Remaining", index |-> settings.remaining_column_index]>>

ResolvableCustoms ==
    LET Resolves(c) == ValidPosition(df1, c.index) /\ ValidPosition(df2, c.index)
    IN SelectSeq(settings.custom_comparisons, Resolves)

ActiveFields == (IF gck_check THEN Triad ELSE <<>>) \o ResolvableCustoms

(* the first record of df whose cell at pos is k                            *)
FirstRecord(df, pos, k) ==
    df.rows[CHOOSE i \in 1..Len(df.rows) :
                /\ df.rows[i][pos] = k
                /\ \A j \in 1..(i - 1) : df.rows[j][pos] # k]

EntriesOf(k) == {e \in Range(result[1].differences) : e.code = k}

(* C3: with field comparison active (and both tables of one layout), a key  *)
(* common to A and B has a differences entry iff its first record in A and  *)
(* its first record in B have unequal values in some active field; the      *)
(* entry names exactly the active fields with unequal values, each with the *)
(* value in A and the value in B, and carries the description of A's record.*)
C3_FieldDifferences ==
    (Returned /\ ComparisonActive /\ SameLayout) =>
        \A k \in KeysA \cap KeysB :
            LET ra == FirstRecord(df1, KeyPosA, k)
                rb == FirstRecord(df2, KeyPosA, k)
                Unequal(f) == ra[f.index + 1] # rb[f.index + 1]
                unequal == SelectSeq(ActiveFields, Unequal)
            IN /\ (EntriesOf(k) # {}) <=> (unequal # <<>>)
               /\ \A e \in EntriesOf(k) :
                    /\ e.description = ra[DescPosA]
                    /\ {e.fields[i].name : i \in DOMAIN e.fields}
                           = {unequal[j].name : j \in DOMAIN unequal}
                    /\ \A i \in DOMAIN e.fields : \E j \in DOMAIN unequal :
                           /\ e.fields[i].name = unequal[j].name
                           /\ e.fields[i].a = ra[unequal[j].index + 1]
                           /\ e.fields[i].b = rb[unequal[j].index + 1]

(* C4: with the detailed comparison off and no custom comparison field,     *)
(* differences is empty whatever the tables hold.                           *)
C4_NoFieldsNoDifferences ==
    (Returned /\ ~gck_check /\ settings.custom_comparisons = <<>>) =>
        result[1].differences = <<>>

C4_Witness ==
    /\ Returned
    /\ ~gck_check
    /\ settings.custom_comparisons = <<>>
    /\ SameLayout
    /\ \E k \in KeysA \cap KeysB : FirstRecord(df1, KeyPosA, k) # FirstRecord(df2, KeyPosA, k)

(* C5: a key of both tables (of one layout) whose first records agree on    *)
(* every active comparison field, or for which no field is active, is in    *)
(* none of only_in_a, only_in_b and differences.                            *)
C5_AgreeingKeyNowhere ==
    (Returned /\ SameLayout) =>
        \A k \in KeysA \cap KeysB :
            (\A i \in DOMAIN ActiveFields :
                 FirstRecord(df1, KeyPosA, k)[ActiveFields[i].index + 1]
                     = FirstRecord(df2, KeyPosA, k)[ActiveFields[i].index + 1])
            => k \notin Range(OnlyInAKeys) \cup Range(OnlyInBKeys) \cup Range(DifferenceKeys)

(* C6 as stated: an invalid key or description index, for table A or for   *)
(* table B, makes compare fail and leaves no result (here on tables that    *)
(* both hold records).                                                      *)
KeyIndex == settings.code_column_index
DescriptionIndex == settings.name_column_index

C6_InvalidIndexFails ==
    (/\ Called
     /\ Len(df1.rows) > 0
     /\ Len(df2.rows) > 0
     /\ \E df \in {df1, df2}, i \in {KeyIndex, DescriptionIndex} : ~ValidPosition(df, i))
        => (result = <<>> /\ error # <<>>)

(* C7 as stated, its "raises no error": a custom comparison field whose     *)
(* index is no column position of table A or of table B raises nothing, so  *)
(* compare fails with it only if it fails without it.                       *)
WithoutCustom(i) ==
    [settings EXCEPT !.custom_comparisons =
        SubSeq(settings.custom_comparisons, 1, i - 1)
            \o SubSeq(settings.custom_comparisons, i + 1, Len(settings.custom_comparisons))]

C7_InvalidCustomRaisesNothing ==
    Called =>
        \A i \in DOMAIN settings.custom_comparisons :
            (\/ ~ValidPosition(df1, settings.custom_comparisons[i].index)
             \/ ~ValidPosition(df2, settings.custom_comparisons[i].index))
            => ((\A ord \in Orders(CodeUniverse(df1, df2, settings)) :
                     calculate_result(df1, df2, WithoutCustom(i), gck_check, ord).error = <<>>)
                => error = <<>>)

(* C8 as stated: with key and description index valid for both tables,     *)
(* compare returns a result (here on tables of one layout that both hold    *)
(* records).                                                                *)
C8_ValidKeyAlwaysReturns ==
    (/\ Called
     /\ SameLayout
     /\ Len(df1.rows) > 0
     /\ Len(df2.rows) > 0
     /\ \A df \in {df1, df2}, i \in {KeyIndex, DescriptionIndex} : ValidPosition(df, i))
        => result # <<>>

(* C9: the active field list is Incoming, Outgoing, Remaining (detailed     *)
(* comparison on) followed by the custom fields table A resolves, in their  *)
(* configured order; the custom part is the same with the detailed          *)
(* comparison off; and the fields of every differences entry are recorded   *)
(* in the order of that list.                                               *)
RECURSIVE IsSubsequence(_, _)
IsSubsequence(s, t) ==
    IF s = <<>> THEN TRUE
    ELSE IF t = <<>> THEN FALSE
    ELSE IF Head(s) = Head(t) THEN IsSubsequence(Tail(s), Tail(t))
    ELSE IsSubsequence(s, Tail(t))

NamesOf(fs) == [i \in DOMAIN fs |-> fs[i].name]

CustomsOfA ==
    LET Resolves(c) == ValidPosition(df1, c.index)
    IN SelectSeq(settings.custom_comparisons, Resolves)

ExpectedFieldList ==
    LET At(f) == [name |-> f.name, col |-> df1.columns[f.index + 1]]
        fields == (IF gck_check THEN Triad ELSE <<>>) \o CustomsOfA
    IN [i \in DOMAIN fields |-> At(fields[i])]

C9_FieldOrder ==
    (Returned /\ ComparisonActive) =>
        /\ columns_to_compare(df1, settings, gck_check).val = ExpectedFieldList
        /\ NamesOf(columns_to_compare(df1, settings, FALSE).val) = NamesOf(CustomsOfA)
        /\ \A e \in Range(result[1].differences) :
               IsSubsequence(NamesOf(e.fields), NamesOf(ExpectedFieldList))

C9_Witness ==
    /\ Returned
    /\ gck_check
    /\ Len(CustomsOfA) = 2
    /\ \E e \in Range(result[1].differences) :
           /\ Len(e.fields) >= 3
           /\ e.fields[1].name = "Incoming"
           /\ e.fields[Len(e.fields)].name = "Region"

(* C10: two compare calls on the same tables and configuration both return  *)
(* a result or both fail, and two results have the same counts, the same    *)
(* only_in_a pairs, the same only_in_b pairs and the same differences       *)
(* entries with the same field mappings.                                    *)
SameContent(r1, r2) ==
    /\ r1.row_count_1 = r2.row_count_1
    /\ r1.row_count_2 = r2.row_count_2
    /\ Len(r1.missing_codes) = Len(r2.missing_codes)
    /\ Range(r1.missing_codes) = Range(r2.missing_codes)
    /\ Len(r1.extra_codes) = Len(r2.extra_codes)
    /\ Range(r1.extra_codes) = Range(r2.extra_codes)
    /\ Len(r1.differences) = Len(r2.differences)
    /\ Range(r1.differences) = Range(r2.differences)

C10_Idempotent ==
    calls >= 2 =>
        /\ (prev_result = <<>>) <=> (result = <<>>)
        /\ result # <<>> => SameContent(prev_result[1], result[1])

C10_Witness ==
    /\ calls >= 2
    /\ result # <<>>
    /\ prev_result # <<>>
    /\ result[1].differences # prev_result[1].differences
    /\ result[1].missing_codes = prev_result[1].missing_codes

(* C11: a compare call, whether it returns or fails, leaves table A, table  *)
(* B, the settings with their custom field list and the detailed-comparison *)
(* flag as they were before the call; the result a call returns is computed *)
(* from those inputs alone and an earlier result is not touched by it.      *)
C11_Frame ==
    [][/\ df1' = df1
       /\ df2' = df2
       /\ settings' = settings
       /\ gck_check' = gck_check
       /\ prev_result' = result
       /\ \E ord \in Orders(CodeUniverse(df1, df2, settings)) :
              LET r == calculate_result(df1, df2, settings, gck_check, ord) IN
              result' = r.val /\ error' = r.error]_vars

C11_Witness ==
    /\ calls = 2
    /\ gck_check
    /\ settings.custom_comparisons # <<>>
    /\ Returned
    /\ result[1].missing_codes # <<>>
    /\ result[1].differences # <<>>
    /\ prev_result = result

(* C12: count_a and count_b are the numbers of records of table A and of    *)
(* table B, records with the same key counted one by one.                   *)
C12_Counts ==
    Returned =>
        /\ result[1].row_count_1 = Len(df1.rows)
        /\ result[1].row_count_2 = Len(df2.rows)

C12_Witness ==
    /\ Returned
    /\ result[1].row_count_1 > Cardinality(KeysA)
    /\ df1.rows[1] = df1.rows[2]

(* C13 as stated: B's keys are the values at position key_index of B's      *)
(* records, and B's descriptions and comparison values are those at the     *)
(* configured positions of B's records, whatever the headers of A and B     *)
(* are.                                                                     *)
KeysBAtIndex == {df2.rows[i][KeyPosA] : i \in 1..Len(df2.rows)}

C13_ReadByPosition ==
    (/\ Returned
     /\ \A df \in {df1, df2}, i \in {KeyIndex, DescriptionIndex} : ValidPosition(df, i))
        => /\ Range(OnlyInBKeys) = KeysBAtIndex \ KeysA
           /\ \A i \in DOMAIN result[1].extra_codes :
                  result[1].extra_codes[i][2]
                      = FirstRecord(df2, KeyPosA, result[1].extra_codes[i][1])[DescPosA]
           /\ \A e \in Range(result[1].differences) :
                  /\ e.code \in KeysBAtIndex
                  /\ \A i \in DOMAIN e.fields : \E j \in DOMAIN ActiveFields :
                         /\ ActiveFields[j].name = e.fields[i].name
                         /\ e.fields[i].b
                                = FirstRecord(df2, KeyPosA, e.code)[ActiveFields[j].index + 1]

(* C14: with several records of one key in a table, the description listed  *)
(* for the key in only_in_a / only_in_b and the values compared and         *)
(* recorded in differences are those of the first record of that key; each  *)
(* key has at most one entry in each list; and the later records have no    *)
(* effect: the three lists are those of the tables with every record        *)
(* removed whose key an earlier record carries.                             *)
FirstOfKey(df, pos) ==
    LET Keep(i) == \A j \in 1..(i - 1) : df.rows[j][pos] # df.rows[i][pos]
        kept == {i \in 1..Len(df.rows) : Keep(i)}
        Nth(n) == CHOOSE i \in kept : Cardinality({j \in kept : j < i}) = n - 1
    IN [df EXCEPT !.rows = [n \in 1..Cardinality(kept) |-> df.rows[Nth(n)]]]

C14_FirstRecordWins ==
    Returned =>
        /\ NoRepeat(OnlyInAKeys)
        /\ NoRepeat(OnlyInBKeys)
        /\ NoRepeat(DifferenceKeys)
        /\ \A i \in DOMAIN result[1].missing_codes :
               result[1].missing_codes[i][2]
                   = FirstRecord(df1, KeyPosA, result[1].missing_codes[i][1])[DescPosA]
        /\ \A i \in DOMAIN result[1].extra_codes :
               result[1].extra_codes[i][2]
                   = FirstRecord(df2, KeyPosB, result[1].extra_codes[i][1])[LabelPosB(DescPosA)]
        /\ \A e \in Range(result[1].differences) :
               LET ra == FirstRecord(df1, KeyPosA, e.code)
                   rb == FirstRecord(df2, KeyPosB, e.code)
               IN /\ e.description = ra[DescPosA]
                  /\ \A i \in DOMAIN e.fields : \E j \in DOMAIN ExpectedFieldList :
                         /\ ExpectedFieldList[j].name = e.fields[i].name
                         /\ e.fields[i].a = ra[Pos(df1, ExpectedFieldList[j].col)]
                         /\ e.fields[i].b = rb[Pos(df2, ExpectedFieldList[j].col)]
        /\ \E ord \in Orders(CodeUniverse(df1, df2, settings)) :
               LET r == calculate_result(FirstOfKey(df1, KeyPosA), FirstOfKey(df2, KeyPosB),
                                         settings, gck_check, ord)
               IN /\ r.error = <<>>
                  /\ r.val[1].missing_codes = result[1].missing_codes
                  /\ r.val[1].extra_codes = result[1].extra_codes
                  /\ r.val[1].differences = result[1].differences

C14_Witness ==
    /\ Returned
    /\ SameLayout
    /\ Len(df1.rows) = 2
    /\ df1.rows[1][KeyPosA] = df1.rows[2][KeyPosA]
    /\ df1.rows[1][DescPosA] # df1.rows[2][DescPosA]
    /\ df1.rows[2] \in Range(df2.rows)
    /\ Len(df2.rows) = 1
    /\ Len(result[1].differences) = 1
    /\ result[1].differences[1].description = df1.rows[1][DescPosA]

(* C15: field values are compared for exact, type-aware equality: a field   *)
(* whose two values are numbers is recorded iff the numbers differ, a field *)
(* whose two values are texts iff the texts differ in any character (case   *)
(* and blanks included), and a field with a number on one side and a text   *)
(* on the other is always recorded.                                         *)
TypeAwareEqual(a, b) ==
    \/ a.t = "num" /\ b.t = "num" /\ a.n = b.n
    \/ a.t = "text" /\ b.t = "text" /\ a.s = b.s

Recorded(k, name, a, b) ==
    \E e \in EntriesOf(k) : \E i \in DOMAIN e.fields :
        e.fields[i] = [name |-> name, a |-> a, b |-> b]

C15_TypeAwareEquality ==
    (Returned /\ ComparisonActive) =>
        \A k \in KeysA \cap KeysB :
            LET ra == FirstRecord(df1, KeyPosA, k)
                rb == FirstRecord(df2, KeyPosB, k)
            IN \A j \in DOMAIN ExpectedFieldList :
                   LET f == ExpectedFieldList[j]
                       a == ra[Pos(df1, f.col)]
                       b == rb[Pos(df2, f.col)]
                   IN (/\ a.t # "nan"
                       /\ b.t # "nan"
                       /\ \A i \in DOMAIN ExpectedFieldList :
                              ExpectedFieldList[i].name = f.name => i = j)
                      => (Recorded(k, f.name, a, b) <=> ~TypeAwareEqual(a, b))

C15_Witness ==
    /\ Returned
    /\ Recorded(Text("001"), "Incoming", Num(5), Text("5"))
    /\ Recorded(Text("001"), "Remaining", Text("Widget"), Text("widget"))
    /\ Recorded(Text("001"), "Region", Text("Widget"), Text("widget"))

(* C16 as stated: a table compared with an identical copy of itself, with   *)
(* unique keys and the detailed comparison on, yields empty only_in_a,      *)
(* only_in_b and differences, also when cells are empty.                    *)
UniqueKeys(df, pos) ==
    \A i, j \in 1..Len(df.rows) : df.rows[i][pos] = df.rows[j][pos] => i = j

C16_IdenticalCopy ==
    (Returned /\ df1 = df2 /\ gck_check /\ UniqueKeys(df1, KeyPosA)) =>
        /\ result[1].missing_codes = <<>>
        /\ result[1].extra_codes = <<>>
        /\ result[1].differences = <<>>

(* C17 as stated: a differences entry holds one (value_in_a, value_in_b)    *)
(* record for every active comparison field whose values are unequal, also  *)
(* when two active fields carry the same name (here on tables of one layout *)
(* without empty cells).                                                    *)
NoEmptyCells ==
    \A df \in {df1, df2} : \A i \in 1..Len(df.rows) : \A j \in 1..Len(df.columns) :
        df.rows[i][j] # Empty

C17_OneRecordPerField ==
    (Returned /\ ComparisonActive /\ SameLayout /\ NoEmptyCells) =>
        \A e \in Range(result[1].differences) :
            LET ra == FirstRecord(df1, KeyPosA, e.code)
                rb == FirstRecord(df2, KeyPosA, e.code)
                Disagree(f) == ra[f.index + 1] # rb[f.index + 1]
            IN Len(e.fields) = Len(SelectSeq(ActiveFields, Disagree))

(* C18: SettingsWindow.save_settings is all-or-nothing: when one of the     *)
(* five index entries is no non-negative integer, or a custom row has only  *)
(* a name or only an index, or a non-numeric index, the settings and the    *)
(* settings file stay as they are; otherwise the five indices and the       *)
(* custom_comparisons list are all replaced by what was entered.            *)
Blank(cs) == \A i \in 1..Len(cs) : cs[i] = " "

IsNonNegativeInteger(cs) ==
    \E i, j \in 1..Len(cs) :
        /\ i <= j
        /\ \A k \in 1..Len(cs) :
               IF k < i \/ k > j THEN cs[k] = " "
               ELSE cs[k] \in {"0", "1", "2", "3", "4", "5", "6", "7", "8", "9"}

NonBlank(cs) ==
    LET Visible(c) == c # " "
    IN SelectSeq(cs, Visible)

Numeral(n) ==
    IF n < 10 THEN <<AsciiDigits[n + 1]>>
    ELSE <<AsciiDigits[(n \div 10) + 1], AsciiDigits[(n % 10) + 1]>>

ValueOf(cs) == CHOOSE n \in 0..99 : Numeral(n) = NonBlank(cs)

InvalidRow(r) ==
    \/ Blank(r.name) # Blank(r.index)
    \/ ~Blank(r.name) /\ ~Blank(r.index) /\ ~IsNonNegativeInteger(r.index)

InvalidEntries ==
    \/ \E k \in KeySet : ~IsNonNegativeInteger(entries[k])
    \/ \E i \in 1..Len(custom_entries) : InvalidRow(custom_entries[i])

EnteredCustoms ==
    LET Filled(r) == ~Blank(r.name)
        rows == SelectSeq(custom_entries, Filled)
    IN [i \in 1..Len(rows) |-> [name |-> NonBlank(rows[i].name), index |-> ValueOf(rows[i].index)]]

EnteredSettings ==
    SettingsOf(ValueOf(entries["code_column_index"]), ValueOf(entries["name_column_index"]),
               ValueOf(entries["incoming_column_index"]), ValueOf(entries["outgoing_column_index"]),
               ValueOf(entries["remaining_column_index"]), EnteredCustoms)

C18_AllOrNothing ==
    [][/\ InvalidEntries => (settings' = settings /\ settings_file' = settings_file)
       /\ ~InvalidEntries => settings' = EnteredSettings]_vars

C18_Witness ==
    /\ message = "Missing Information"
    /\ \A k \in KeySet : IsNonNegativeInteger(entries[k]) /\ ValueOf(entries[k]) # settings[k]
    /\ \E i \in 1..Len(custom_entries) : ~InvalidRow(custom_entries[i]) /\ ~Blank(custom_entries[i].name)
    /\ settings.custom_comparisons = <<>>
    /\ settings_file = <<settings>>

====
